---- MODULE Spec2Model ----
(***************************************************************************)
(* A model of the track deduplication service of music-trend-panel          *)
(* (app/services/deduplication.py) and of the batch ingestion loop that     *)
(* drives it (app/main.py, refresh_trends).                                 *)
(*                                                                          *)
(* Text is a sequence of characters, each character a one-element string    *)
(* ("a", " ", "("); the two accented letters of the alphabet are written    *)
(* "e_acute" and "E_acute" and the combining mark they decompose to         *)
(* "comb_acute".  An optional value (Python's None or a value) is the       *)
(* empty sequence or a one-element sequence.                                *)
(***************************************************************************)
EXTENDS Integers, Sequences, FiniteSets, TLC

\* ------------------------------------------------------------------ values

None == <<>>
Some(v) == <<v>>

\* Python's truth test of an optional field, `if track_data.get('isrc')`
Truthy(x) == x # None

SetMin(S) == CHOOSE x \in S : \A y \in S : x <= y
SetMax(S) == CHOOSE x \in S : \A y \in S : y <= x

\* ------------------------------------------------------------- characters

UpperLetters ==
    <<"A","B","C","D","E","F","G","H","I","J","K","L","M",
      "N","O","P","Q","R","S","T","U","V","W","X","Y","Z">>
LowerLetters ==
    <<"a","b","c","d","e","f","g","h","i","j","k","l","m",
      "n","o","p","q","r","s","t","u","v","w","x","y","z">>
LowerAlnum ==
    {"a","b","c","d","e","f","g","h","i","j","k","l","m",
     "n","o","p","q","r","s","t","u","v","w","x","y","z",
     "0","1","2","3","4","5","6","7","8","9"}

\* \s of the regular expressions
IsSpace(c) == c \in {" ", "\t", "\n"}
\* . of the regular expressions (no DOTALL flag): anything but a line break
IsDot(c) == c # "\n"
\* [\(\[] and [\)\]]
IsOpen(c) == c \in {"(", "["}
IsClose(c) == c \in {")", "]"}

\* unicodedata.normalize('NFKD', c) of one character
NFKD(c) ==
    CASE c = "e_acute" -> <<"e", "comb_acute">>
      [] c = "E_acute" -> <<"E", "comb_acute">>
      [] OTHER -> <<c>>
\* unicodedata.combining(c) # 0
Combining(c) == c = "comb_acute"

\* str.lower() of one character
LowerChar(c) ==
    IF \E i \in 1..26 : UpperLetters[i] = c
    THEN LowerLetters[CHOOSE i \in 1..26 : UpperLetters[i] = c]
    ELSE c

RECURSIVE Flatten(_)
Flatten(ss) == IF ss = <<>> THEN <<>> ELSE Head(ss) \o Flatten(Tail(ss))

\* the slices s[n:] and s[:n]
Drop(s, n) == SubSeq(s, n + 1, Len(s))
Take(s, n) == SubSeq(s, 1, IF n <= Len(s) THEN n ELSE Len(s))

\* first index >= i of s that is not whitespace (Len(s) + 1 when none)
SkipSpace(s, i) ==
    SetMin({k \in i..(Len(s) + 1) : k = Len(s) + 1 \/ ~IsSpace(s[k])})
\* first index of the run of whitespace that ends right before index j
RunStart(s, j) ==
    SetMin({k \in 1..j : \A m \in k..(j - 1) : IsSpace(s[m])})
\* last index of the run of non-line-break characters that starts at m
LineEnd(s, m) ==
    SetMax({q \in m..Len(s) : \A x \in m..q : IsDot(s[x])})

\* ------------------------------------------------------- normalize_string

\* text = unicodedata.normalize('NFKD', text), then drop the combining marks
StripAccents(text) ==
    SelectSeq(Flatten([i \in 1..Len(text) |-> NFKD(text[i])]),
              LAMBDA c : ~Combining(c))

ToLower(text) == [i \in 1..Len(text) |-> LowerChar(text[i])]

\* re.sub(r'\s*[\(\[].+?[\)\]]\s*', ' ', text)
\* the closing bracket the lazy .+? stops at for the opening bracket at j:
\* the first one at j + 2 or later with no line break in between (0: none)
CloseOf(s, j) ==
    LET ks == {k \in (j + 2)..Len(s) :
                 IsClose(s[k]) /\ \A m \in (j + 1)..(k - 1) : IsDot(s[m])}
    IN  IF ks = {} THEN 0 ELSE SetMin(ks)
RECURSIVE StripBrackets(_)
StripBrackets(s) ==
    LET js == {j \in 1..Len(s) : IsOpen(s[j]) /\ CloseOf(s, j) # 0}
    IN  IF js = {} THEN s
        ELSE LET j == SetMin(js)
                 i == RunStart(s, j)
                 e == SkipSpace(s, CloseOf(s, j) + 1)
             IN  Take(s, i - 1) \o <<" ">> \o StripBrackets(Drop(s, e - 1))

\* re.sub(r'\s+(feat\.?|ft\.?|featuring|with|vs\.?|&)\s+.+', '', text,
\*        flags=re.IGNORECASE)
FeatWords ==
    { <<"f","e","a","t",".">>, <<"f","e","a","t">>,
      <<"f","t",".">>, <<"f","t">>,
      <<"f","e","a","t","u","r","i","n","g">>,
      <<"w","i","t","h">>,
      <<"v","s",".">>, <<"v","s">>,
      <<"&">> }
WordAt(s, j, w) ==
    /\ j + Len(w) - 1 <= Len(s)
    /\ \A x \in 1..Len(w) : LowerChar(s[j + x - 1]) = w[x]
\* the first character the greedy .+ takes when \s+ starts at e (0: no match):
\* the first non-blank after the run of whitespace, else, giving whitespace
\* back, the last whitespace character of the run that is not a line break
TailStart(s, e) ==
    IF e > Len(s) \/ ~IsSpace(s[e]) THEN 0
    ELSE LET r == SkipSpace(s, e)
             ts == {t \in (e + 1)..Len(s) : IsDot(s[t])}
         IN  IF r <= Len(s) THEN r
             ELSE IF ts = {} THEN 0 ELSE SetMax(ts)
\* the index after the featuring word that matches at j (0: no match at j)
FeatEnd(s, j) ==
    LET es == {j + Len(w) : w \in {v \in FeatWords : WordAt(s, j, v)}}
        ok == {e \in es : TailStart(s, e) # 0}
    IN  IF ok = {} THEN 0 ELSE SetMin(ok)
RECURSIVE StripFeaturing(_)
StripFeaturing(s) ==
    LET js == {j \in 2..Len(s) : IsSpace(s[j - 1]) /\ FeatEnd(s, j) # 0}
    IN  IF js = {} THEN s
        ELSE LET j == SetMin(js)
                 i == RunStart(s, j)
                 q == LineEnd(s, TailStart(s, FeatEnd(s, j)))
             IN  Take(s, i - 1) \o StripFeaturing(Drop(s, q))

\* re.sub(r'[^a-z0-9\s]', '', text)
StripSpecial(s) == SelectSeq(s, LAMBDA c : c \in LowerAlnum \/ IsSpace(c))

\* re.sub(r'\s+', ' ', text).strip()
RECURSIVE CollapseSpace(_)
CollapseSpace(s) ==
    IF s = <<>> THEN <<>>
    ELSE IF IsSpace(s[1])
         THEN LET r == SkipSpace(s, 1)
              IN  <<" ">> \o CollapseSpace(Drop(s, r - 1))
         ELSE <<s[1]>> \o CollapseSpace(Tail(s))
Strip(s) ==
    LET a == SkipSpace(s, 1)
        bs == {k \in 1..Len(s) : ~IsSpace(s[k])}
    IN  IF bs = {} THEN <<>> ELSE SubSeq(s, a, SetMax(bs))

normalize_string(text) ==
    IF text = <<>> THEN <<>>
    ELSE Strip(CollapseSpace(StripSpecial(StripFeaturing(
             StripBrackets(ToLower(StripAccents(text)))))))

\* ------------------------------------------------------------- fuzz.ratio

Max2(a, b) == IF a >= b THEN a ELSE b

\* the number of matching characters M of the two strings (the longest common
\* subsequence: lensum minus the insert/delete distance, halved)
MatchCount(a, b) ==
    LET lcs[i \in 0..Len(a), j \in 0..Len(b)] ==
            IF i = 0 \/ j = 0 THEN 0
            ELSE IF a[i] = b[j] THEN lcs[i - 1, j - 1] + 1
            ELSE Max2(lcs[i - 1, j], lcs[i, j - 1])
    IN  lcs[Len(a), Len(b)]

\* int(round(n / d)), Python's round: a tie goes to the even neighbour
RoundDiv(n, d) ==
    LET q == n \div d
        r == n % d
    IN  IF 2 * r < d THEN q
        ELSE IF 2 * r > d THEN q + 1
        ELSE IF q % 2 = 0 THEN q ELSE q + 1

\* fuzz.ratio(s1, s2): 100 for equal strings, 0 when either is empty,
\* else int(round(100 * 2 * M / (len(s1) + len(s2))))
FuzzRatio(s1, s2) ==
    IF s1 = s2 THEN 100
    ELSE IF Len(s1) = 0 \/ Len(s2) = 0 THEN 0
    ELSE RoundDiv(200 * MatchCount(s1, s2), Len(s1) + Len(s2))

\* ------------------------------------------------------------------ bounds

\* resolves started in one run of the sequential specification
MaxCalls == 2
\* resolves started in one run of the specification with the narrow inputs
MaxDeepCalls == 3
\* resolves started in one run of the concurrent specification
MaxConcCalls == 2
\* records processed in one run of refresh_trends
MaxBatch == 3
\* records in the chart one provider returns
MaxChart == 2
\* trend entries written in one run of the specification of the table
MaxWrites == 3
\* the last day of that run
MaxDay == 2
\* pieces a text given to normalize_string is made of
MaxTokens == 6

\* ------------------------------------------------------ program constants

\* `if title_score >= 92 and artist_score >= 88`
TitleThreshold == 92
ArtistThreshold == 88
\* search_pattern = f"%{normalized_artist[:20]}%"
ArtistPrefixLen == 20
\* LIMIT 20 of the candidate query
CandidateLimit == 20

\* ------------------------------------------------------------------ inputs

T_Titles  == <<"T","i","t","l","e","s">>
T_Remix   == <<"t","i","t","l","e","s"," ","(","x",")">>
T_Titlesz == <<"T","i","t","l","e","s","z">>
T_Other   == <<"O","t","h","e","r">>
T_Bang    == <<"!">>
A_Ab      == <<"A","b">>
A_AbFeat  == <<"A","b"," ","f","e","a","t","."," ","C">>
A_Quest   == <<"?">>

\* (title, artist) of the incoming records: one pair, the same pair formatted
\* differently, a one-letter variation of the title, another title, and a
\* title and an artist that normalize to the empty string
Pairs ==
    { <<T_Titles, A_Ab>>, <<T_Remix, A_AbFeat>>, <<T_Titlesz, A_Ab>>,
      <<T_Other, A_Ab>>, <<T_Bang, A_Ab>>, <<T_Titles, A_Quest>> }

\* (isrc, duration_ms, artwork_url) of the incoming records
Metas ==
    { <<None, None, None>>,
      <<Some("I1"), None, None>>,
      <<None, None, Some("u1")>>,
      <<Some("I1"), Some(180), Some("u1")>>,
      <<Some("I2"), Some(240), Some("u2")>> }

\* the normalized track dictionaries a provider hands to
\* find_or_create_track; the pairs that normalize to the empty string come
\* without metadata and with all of it
Records ==
    { r \in { [title |-> p[1], artist |-> p[2], isrc |-> m[1],
               duration_ms |-> m[2], artwork_url |-> m[3],
               musicbrainz_recording_id |-> None] : p \in Pairs, m \in Metas } :
        (r.title = T_Bang \/ r.artist = A_Quest)
        => (r.isrc = None) = (r.artwork_url = None) }

\* the narrow inputs: three of the pairs, and metadata that carries an ISRC;
\* and the one-letter variation of the first title with an ISRC alone
DeepRecords ==
    { r \in Records :
        \/ /\ <<r.title, r.artist>> \in
                 { <<T_Titles, A_Ab>>, <<T_Other, A_Ab>>, <<T_Bang, A_Ab>> }
           /\ \/ r.isrc # None
              \/ r.title = T_Titles /\ r.artwork_url = None
        \/ /\ r.title = T_Titlesz
           /\ r.isrc = Some("I1") /\ r.artwork_url = None }

\* the inputs of the interleaved resolves: one pair with and without
\* metadata, and another title with the same ISRC
ConcRecords ==
    { r \in DeepRecords :
        \/ r.title = T_Titles
        \/ r.title = T_Other /\ r.isrc = Some("I1") /\ r.artwork_url = None }

\* what GET /recording can come to: no answer (network fault, timeout), or an
\* answer with a status and a body (malformed, or a list of recordings, each
\* with an id and a list of ISRC entries, an entry being a dictionary with
\* the key 'isrc' or a plain string)
IsrcEntry(v) == [shape |-> "dict", isrc |-> v]
Recordings ==
    { <<>>,
      <<[id |-> Some("M1"), isrcs |-> <<>>]>>,
      <<[id |-> Some("M1"), isrcs |-> <<IsrcEntry("I1")>>]>>,
      <<[id |-> Some("M1"), isrcs |-> <<IsrcEntry("I2"), IsrcEntry("I1")>>]>>,
      <<[id |-> Some("M1"), isrcs |-> <<[shape |-> "string", isrc |-> "I1"]>>]>> }
Responses ==
    { [kind |-> k, status |-> 0, body |-> <<>>] : k \in {"network", "timeout"} }
    \cup { [kind |-> "http", status |-> st, body |-> <<>>] : st \in {429, 500} }
    \cup { [kind |-> "http", status |-> 200, body |-> <<"malformed">>] }
    \cup { [kind |-> "http", status |-> 200, body |-> <<"json", r>>] :
           r \in Recordings }
NoResponse == [kind |-> "none", status |-> 0, body |-> <<>>]

\* ------------------------------------------------------------------- state

VARIABLES
    tracks,              \* the tracks table: the row with id i is tracks[i]
    enable_musicbrainz,  \* DeduplicationService.enable_musicbrainz
    call,                \* per invocation of find_or_create_track: its locals
    prev,                \* the invocation that finished before the current one
    budget,              \* resolves that may still be started
    trend_entries,       \* the trend_entries table of today's region and genre
    refresh,             \* the locals of the running refresh_trends request
    pure                 \* the arguments and the result of a function under test

vars == <<tracks, enable_musicbrainz, call, prev, budget, trend_entries, refresh,
          pure>>
\* no function under test
NoPure == [fn |-> "none"]

Procs == {1, 2}

NoRecord ==
    [title |-> <<>>, artist |-> <<>>, isrc |-> None, duration_ms |-> None,
     artwork_url |-> None, musicbrainz_recording_id |-> None]

\* an invocation: pc is the await it is suspended at; record is the dictionary
\* as passed in, track_data the same dictionary as the call has changed it;
\* outcome is "returned" or "raised"; tier is the tier that decided the result
\* and fault the storage operation that failed; pre_tracks is the table as it
\* was when the call started; held is the number of pool connections the
\* call holds and issued the lookups it has issued so far, in order;
\* candidates is the list of row ids the candidate query of tier 3 returned
IdleCall ==
    [pc |-> "idle", record |-> NoRecord, track_data |-> NoRecord,
     normalized_title |-> <<>>, normalized_artist |-> <<>>,
     row |-> 0, result |-> 0, outcome |-> "none", tier |-> "none",
     fault |-> "none", response |-> NoResponse, pre_tracks |-> <<>>,
     held |-> 0, issued |-> <<>>, candidates |-> <<>>]

NoPrev == [valid |-> FALSE, record |-> NoRecord, result |-> 0,
           outcome |-> "none", tier |-> "none"]

\* a request to POST /api/refresh: pc is the statement it is at; providers
\* is the list of initialised providers and idx the position of the loop over
\* it; chart is the number of records of the current provider's chart still
\* to process and rank the rank of the record being processed; open is the
\* set of HTTP clients opened and not closed; asked, fetched and log are the
\* history of the run: the providers whose fetch_charts was called, the
\* number of records they returned, and for each record taken from a chart
\* whether its resolve returned, whether it raised from the INSERT of the
\* new track, and whether its trend entry was written
NoRefresh ==
    [pc |-> "idle", force |-> FALSE, providers |-> <<>>, idx |-> 0,
     chart |-> 0, rank |-> 0, total_tracks |-> 0, errors |-> <<>>,
     open |-> {}, asked |-> {}, fetched |-> 0, log |-> <<>>,
     status |-> "none", tracks_processed |-> 0]

\* ---------------------------------------------------------------- storage

\* the update written as column = $n where a value is supplied
CoalesceNewWins(old, new) == IF new # None THEN new ELSE old
\* COALESCE(column, $n)
Coalesce(old, new) == IF old # None THEN old ELSE new

\* the exact lookup comparing the display title with the normalized one
FindExactOnDisplayTitle(nt, na) ==
    {i \in 1..Len(tracks) : /\ tracks[i].title = nt
                            /\ tracks[i].normalized_artist = na}
\* the exact lookup finding nothing
FindExactNever(nt, na) == {}
\* SELECT id FROM tracks WHERE normalized_title = $1 AND normalized_artist = $2
FindExact(nt, na) ==
    {i \in 1..Len(tracks) : /\ tracks[i].normalized_title = nt
                            /\ tracks[i].normalized_artist = na}

\* the ISRC lookup comparing with the recording id column
FindByIsrcOnRecordingId(isrc) ==
    {i \in 1..Len(tracks) : tracks[i].musicbrainz_recording_id = isrc}
\* SELECT id FROM tracks WHERE isrc = $1
FindByIsrc(isrc) == {i \in 1..Len(tracks) : tracks[i].isrc = isrc}

\* normalized_artist ILIKE '%' || needle || '%'
Contains(hay, needle) ==
    \E i \in 0..(Len(hay) - Len(needle)) :
        SubSeq(hay, i + 1, i + Len(needle)) = needle

\* the rows the candidate query can return: with more than CandidateLimit
\* rows matching, any CandidateLimit of them
CandidateSets(na) ==
    LET all == {i \in 1..Len(tracks) :
                  Contains(tracks[i].normalized_artist, Take(na, ArtistPrefixLen))}
    IN  IF Cardinality(all) <= CandidateLimit THEN {all}
        ELSE {S \in SUBSET all : Cardinality(S) = CandidateLimit}

\* the candidates of S that pass both thresholds
Accepted(S, nt, na) ==
    {i \in S : /\ FuzzRatio(nt, tracks[i].normalized_title) >= TitleThreshold
               /\ FuzzRatio(na, tracks[i].normalized_artist) >= ArtistThreshold}

\* the lists `candidates` can be: the query has no ORDER BY, so the rows
\* come in any order
CandidateLists(na) ==
    UNION { { cs \in [1..Cardinality(S) -> S] :
                \A i, j \in 1..Cardinality(S) : cs[i] = cs[j] => i = j } :
            S \in CandidateSets(na) }

\* the loop accepting on the title score alone
FirstTitleAccepted(cs, nt, na) ==
    LET ok == {k \in 1..Len(cs) :
                 FuzzRatio(nt, tracks[cs[k]].normalized_title) >= TitleThreshold}
    IN  IF ok = {} THEN 0 ELSE cs[SetMin(ok)]
\* lines 148-161: the first candidate of the list that passes both
\* thresholds, 0 (None) when there is none
FirstAccepted(cs, nt, na) ==
    LET ok == {k \in 1..Len(cs) : cs[k] \in Accepted({cs[k]}, nt, na)}
    IN  IF ok = {} THEN 0 ELSE cs[SetMin(ok)]

\* _fuzzy_match's possible results (0 for None)
FuzzyResults(nt, na) ==
    { FirstAccepted(cs, nt, na) : cs \in CandidateLists(na) }

\* _create_track with the raw title passed where the normalized one belongs
NewTrackRawTitle(data, nt, na) ==
    [title |-> data.title, artist |-> data.artist,
     normalized_title |-> data.title, normalized_artist |-> na,
     isrc |-> data.isrc,
     musicbrainz_recording_id |-> data.musicbrainz_recording_id,
     duration_ms |-> data.duration_ms, artwork_url |-> data.artwork_url]
\* _create_track leaving the recording id column empty
NewTrackWithoutRecordingId(data, nt, na) ==
    [title |-> data.title, artist |-> data.artist,
     normalized_title |-> nt, normalized_artist |-> na,
     isrc |-> data.isrc, musicbrainz_recording_id |-> None,
     duration_ms |-> data.duration_ms, artwork_url |-> data.artwork_url]
\* the row _create_track inserts
NewTrack(data, nt, na) ==
    [title |-> data.title, artist |-> data.artist,
     normalized_title |-> nt, normalized_artist |-> na,
     isrc |-> data.isrc,
     musicbrainz_recording_id |-> data.musicbrainz_recording_id,
     duration_ms |-> data.duration_ms, artwork_url |-> data.artwork_url]

\* the INSERT returning the number of rows before it as the id
InsertTrackStaleId(ts, t) == [rows |-> Append(ts, t), id |-> Len(ts)]
\* the INSERT under a unique constraint on the normalized pair, a conflict
\* answered with the row already there
InsertTrackOnConflict(ts, t) ==
    LET same == {i \in 1..Len(ts) :
                   /\ ts[i].normalized_title = t.normalized_title
                   /\ ts[i].normalized_artist = t.normalized_artist}
    IN  IF same = {} THEN [rows |-> Append(ts, t), id |-> Len(ts) + 1]
        ELSE [rows |-> ts, id |-> CHOOSE i \in same : TRUE]
\* INSERT INTO tracks ... RETURNING id: the table after it and the new id
InsertTrack(ts, t) == [rows |-> Append(ts, t), id |-> Len(ts) + 1]

\* whether _update_track_metadata issues its UPDATE
UpdatesMetadata(data) == Truthy(data.artwork_url)

\* the UPDATE of _update_track_metadata on one row
MergedTrack(t, data) ==
    [t EXCEPT !.artwork_url = Coalesce(@, data.artwork_url),
              !.isrc = Coalesce(@, data.isrc),
              !.duration_ms = Coalesce(@, data.duration_ms)]

\* _query_musicbrainz: data is the dictionary it returns (None for no
\* result); raised says that the lookup's failure left the function
MbResult(data) == [raised |-> FALSE, data |-> data]
\* _query_musicbrainz with raise_for_status() outside the try block
\* lines 235-249: the body is decoded and the first recording read; an
\* exception on the way (not JSON, an ISRC entry that is no dictionary) ends
\* in the handler of line 251
ParseRecordings(resp) ==
    IF resp.body[1] # "json" THEN MbResult(None)
    ELSE IF resp.body[2] = <<>> THEN MbResult(None)
    ELSE LET rec == resp.body[2][1]
         IN  IF \E k \in 1..Len(rec.isrcs) : rec.isrcs[k].shape # "dict"
             THEN MbResult(None)
             ELSE MbResult(Some([id |-> rec.id,
                                 isrc |-> IF rec.isrcs # <<>>
                                          THEN Some(rec.isrcs[1].isrc)
                                          ELSE None]))
\* _query_musicbrainz with raise_for_status() outside the try block
QueryMusicbrainzStatusRaises(resp) ==
    IF resp.kind # "http" THEN MbResult(None)
    ELSE IF resp.status = 429 THEN MbResult(None)
    ELSE IF resp.status >= 400 THEN [raised |-> TRUE, data |-> None]
    ELSE ParseRecordings(resp)
QueryMusicbrainz(resp) ==
    IF resp.kind # "http" THEN MbResult(None)
    ELSE IF resp.status = 429 THEN MbResult(None)
    ELSE IF resp.status >= 400 THEN MbResult(None)
    ELSE ParseRecordings(resp)

\* --------------------------------------------------- find_or_create_track

Init ==
    /\ tracks = <<>>
    /\ enable_musicbrainz \in BOOLEAN
    /\ call = [p \in Procs |-> IdleCall]
    /\ prev = NoPrev
    /\ budget = MaxCalls
    /\ trend_entries = {}
    /\ refresh = NoRefresh
    /\ pure = NoPure

\* `async with self.db.acquire() as conn`: entering the block takes a
\* connection from the pool, leaving it at its end gives it back
Acquire(c) == [c EXCEPT !.held = @ + 1]
Release(c) == [c EXCEPT !.held = @ - 1]
\* a return or an exception that gives back the innermost connection only
UnwindInnermost(c) == [c EXCEPT !.held = IF @ > 0 THEN @ - 1 ELSE 0]
\* a return or an exception inside the blocks: every enclosing `async with`
\* exits and gives its connection back
Unwind(c) == [c EXCEPT !.held = 0]
\* the lookup is sent
Issue(c, lookup) == [c EXCEPT !.issued = Append(@, lookup)]
\* the call's locals after `return id`
Returned(c, id, t) ==
    [Unwind(c) EXCEPT !.pc = "done", !.result = id, !.outcome = "returned",
                      !.tier = t]
\* the call's locals after a storage operation raised
Raised(c, where) ==
    [Unwind(c) EXCEPT !.pc = "done", !.outcome = "raised", !.fault = where]
\* line 76 with the first lookup always made
EntryPointAlwaysExact(nt, na) == "exact"
\* line 76: a record with an empty normalized title or artist goes straight
\* to _create_track, any other to the tier-1 lookup
EntryPoint(nt, na) == IF nt = <<>> \/ na = <<>> THEN "create" ELSE "exact"
\* a lookup found row id: _update_track_metadata runs, which suspends only
\* when it issues its UPDATE
Matched(c, id, t) ==
    IF UpdatesMetadata(c.track_data)
    THEN [c EXCEPT !.pc = "merge", !.row = id, !.tier = t]
    ELSE Returned([c EXCEPT !.row = id], id, t)
\* tier 3 followed by the enrichment whatever the configuration
AfterFuzzyAlwaysEnrich(c) == [c EXCEPT !.pc = "enrich"]
\* after tier 3 missed
AfterFuzzy(c) ==
    [c EXCEPT !.pc = IF enable_musicbrainz THEN "enrich" ELSE "create"]

\* lines 73-79: normalize, and route a record with an empty normalized title
\* or artist straight to creation
StartCall(p, rec) ==
    /\ budget > 0
    /\ call[p].pc \in {"idle", "done"}
    /\ budget' = budget - 1
    /\ prev' = IF call[p].pc = "done"
               THEN [valid |-> TRUE, record |-> call[p].record,
                     result |-> call[p].result, outcome |-> call[p].outcome,
                     tier |-> call[p].tier]
               ELSE prev
    /\ LET nt == normalize_string(rec.title)
           na == normalize_string(rec.artist)
       IN  call' = [call EXCEPT ![p] =
               [IdleCall EXCEPT
                  !.pc = EntryPoint(nt, na),
                  !.record = rec, !.track_data = rec,
                  !.normalized_title = nt, !.normalized_artist = na,
                  !.pre_tracks = tracks]]
    /\ UNCHANGED <<tracks, enable_musicbrainz, trend_entries, pure>>

\* lines 81-92: tier 1, the exact lookup
ExactLookup(p) ==
    LET c == Issue(Acquire(call[p]), "exact")
        hits == FindExact(c.normalized_title, c.normalized_artist)
    IN  /\ c.pc = "exact"
        /\ \/ call' = [call EXCEPT ![p] = Raised(c, "exact")]
           \/ /\ hits = {}
              /\ call' = [call EXCEPT ![p] = [Release(c) EXCEPT !.pc =
                            IF Truthy(c.track_data.isrc) THEN "isrc" ELSE "fuzzy"]]
           \/ \E id \in hits : call' = [call EXCEPT ![p] = Matched(c, id, "exact")]
        /\ UNCHANGED <<tracks, enable_musicbrainz, prev, budget, trend_entries, refresh, pure>>

\* lines 94-102: tier 2, the lookup by ISRC
IsrcLookup(p) ==
    LET c == Issue(Acquire(call[p]), "isrc")
        hits == FindByIsrc(c.track_data.isrc)
    IN  /\ c.pc = "isrc"
        /\ \/ call' = [call EXCEPT ![p] = Raised(c, "isrc")]
           \/ /\ hits = {}
              /\ call' = [call EXCEPT ![p] = [Release(c) EXCEPT !.pc = "fuzzy"]]
           \/ \E id \in hits : call' = [call EXCEPT ![p] = Matched(c, id, "isrc")]
        /\ UNCHANGED <<tracks, enable_musicbrainz, prev, budget, trend_entries, refresh, pure>>

\* lines 104-107 and _fuzzy_match: tier 3; the candidates are fetched inside
\* the block and compared after it
FuzzyLookup(p) ==
    LET c == Issue(Acquire(call[p]), "fuzzy")
    IN  /\ c.pc = "fuzzy"
        /\ \/ call' = [call EXCEPT ![p] = Raised(c, "fuzzy")]
           \/ \E cs \in CandidateLists(c.normalized_artist) :
                 LET id == FirstAccepted(cs, c.normalized_title,
                                         c.normalized_artist)
                     c1 == [Release(c) EXCEPT !.candidates = cs]
                 IN  call' = [call EXCEPT ![p] =
                                IF id = 0 THEN AfterFuzzy(c1)
                                ELSE Matched(c1, id, "fuzzy")]
        /\ UNCHANGED <<tracks, enable_musicbrainz, prev, budget, trend_entries, refresh, pure>>

\* lines 110-115: tier 4, the enrichment lookup and what it leaves in
\* track_data
Enrich(p) ==
    LET c == Issue(call[p], "enrich")
    IN  /\ c.pc = "enrich"
        /\ \E resp \in Responses :
             LET mb == QueryMusicbrainz(resp)
                 d0 == c.track_data
                 c1 == [c EXCEPT !.response = resp]
             IN  call' = [call EXCEPT ![p] =
                   IF mb.raised THEN Raised(c1, "enrich")
                   ELSE IF mb.data = None THEN [c1 EXCEPT !.pc = "create"]
                   ELSE LET d1 == [d0 EXCEPT !.musicbrainz_recording_id =
                                                 mb.data[1].id]
                        IN  IF ~Truthy(d0.isrc) /\ Truthy(mb.data[1].isrc)
                            THEN [c1 EXCEPT !.pc = "recheck",
                                            !.track_data =
                                               [d1 EXCEPT !.isrc = mb.data[1].isrc]]
                            ELSE [c1 EXCEPT !.pc = "create", !.track_data = d1]]
        /\ UNCHANGED <<tracks, enable_musicbrainz, prev, budget, trend_entries, refresh, pure>>

\* lines 116-123: tier 2 again, with the ISRC the enrichment gave
Recheck(p) ==
    LET c == Issue(Acquire(call[p]), "recheck")
        hits == FindByIsrc(c.track_data.isrc)
    IN  /\ c.pc = "recheck"
        /\ \/ call' = [call EXCEPT ![p] = Raised(c, "recheck")]
           \/ /\ hits = {}
              /\ call' = [call EXCEPT ![p] = [Release(c) EXCEPT !.pc = "create"]]
           \/ \E id \in hits :
                 call' = [call EXCEPT ![p] = Matched(c, id, "enrichment")]
        /\ UNCHANGED <<tracks, enable_musicbrainz, prev, budget, trend_entries, refresh, pure>>

\* _update_track_metadata's UPDATE, then `return row['id']`
Merge(p) ==
    LET c == Acquire(call[p])
    IN  /\ c.pc = "merge"
        /\ \/ /\ call' = [call EXCEPT ![p] = Raised(c, "merge")]
              /\ UNCHANGED tracks
           \/ /\ tracks' = [tracks EXCEPT ![c.row] = MergedTrack(@, c.track_data)]
              /\ call' = [call EXCEPT ![p] = Returned(Release(c), c.row, c.tier)]
        /\ UNCHANGED <<enable_musicbrainz, prev, budget, trend_entries, refresh, pure>>

\* lines 125-126 and _create_track: the INSERT, then `return row['id']`
Create(p) ==
    LET c == Acquire(call[p])
    IN  /\ c.pc = "create"
        /\ \/ /\ call' = [call EXCEPT ![p] = Raised(c, "create")]
              /\ UNCHANGED tracks
           \/ LET ins == InsertTrack(tracks, NewTrack(c.track_data,
                                c.normalized_title, c.normalized_artist))
              IN  /\ tracks' = ins.rows
                  /\ call' = [call EXCEPT ![p] =
                                Returned(Release(c), ins.id, "creation")]
        /\ UNCHANGED <<enable_musicbrainz, prev, budget, trend_entries, refresh, pure>>

Start(p) == (\E rec \in Records : StartCall(p, rec)) /\ UNCHANGED refresh

Resolve(p) ==
    \/ ExactLookup(p)
    \/ IsrcLookup(p)
    \/ FuzzyLookup(p)
    \/ Enrich(p)
    \/ Recheck(p)
    \/ Merge(p)
    \/ Create(p)

\* one resolve at a time: the sequential use the service is designed for
Next == Start(1) \/ Resolve(1)

Spec == Init /\ [][Next]_vars

\* the same, one resolve more, on the narrow inputs
InitDeep ==
    /\ tracks = <<>>
    /\ enable_musicbrainz \in BOOLEAN
    /\ call = [p \in Procs |-> IdleCall]
    /\ prev = NoPrev
    /\ budget = MaxDeepCalls
    /\ trend_entries = {}
    /\ refresh = NoRefresh
    /\ pure = NoPure
StartDeep(p) == (\E rec \in DeepRecords : StartCall(p, rec)) /\ UNCHANGED refresh
NextDeep == StartDeep(1) \/ Resolve(1)
SpecDeep == InitDeep /\ [][NextDeep]_vars

\* resolves interleaved at their awaits: the event loop runs one invocation
\* up to its next await, then any other
InitConc ==
    /\ tracks = <<>>
    /\ enable_musicbrainz \in BOOLEAN
    /\ call = [p \in Procs |-> IdleCall]
    /\ prev = NoPrev
    /\ budget = MaxConcCalls
    /\ trend_entries = {}
    /\ refresh = NoRefresh
    /\ pure = NoPure
StartConc(p) == (\E rec \in ConcRecords : StartCall(p, rec)) /\ UNCHANGED refresh
NextConc == \E p \in Procs : StartConc(p) \/ Resolve(p)
SpecConc == InitConc /\ [][NextConc]_vars

\* ------------------------------------------------------ the connection pool

\* resolves started in one run of the specification of the pool
MaxPoolCalls == 3
\* connections of the pool (max_size of create_pool), scaled to the two
\* invocations of the model
PoolSize == 2

\* the connections taken from the pool
PoolHeld == call[1].held + call[2].held
\* the invocation's next step enters an `async with self.db.acquire()`
Acquires(p) ==
    call[p].pc \in {"exact", "isrc", "fuzzy", "recheck", "merge", "create"}
\* pool.acquire() returns when a connection is free and waits, without a
\* timeout, while none is
PoolGrants(p) == Acquires(p) => PoolHeld < PoolSize

InitPool ==
    /\ tracks = <<>>
    /\ enable_musicbrainz \in BOOLEAN
    /\ call = [p \in Procs |-> IdleCall]
    /\ prev = NoPrev
    /\ budget = MaxPoolCalls
    /\ trend_entries = {}
    /\ refresh = NoRefresh
    /\ pure = NoPure
\* resolves interleaved at their awaits, each step that takes a connection
\* waiting for the pool to grant it
NextPool == \E p \in Procs : StartConc(p) \/ (PoolGrants(p) /\ Resolve(p))
SpecPool == InitPool /\ [][NextPool]_vars

\* ------------------------------------------------------------ the fuzzy tier

\* resolves started in one run of the specification of the fuzzy tier
MaxFuzzyCalls == 3

T_Titlesy == <<"T","i","t","l","e","s","y">>
A_Abc     == <<"A","b","c">>

\* records around one title: two one-letter variations of it that are within
\* the title threshold of it and not of each other, the title itself without
\* metadata and with an ISRC and an artwork, the title by an artist whose
\* name contains the other's and is not within the artist threshold of it,
\* and another title
FuzzyRecords ==
    { [NoRecord EXCEPT !.title = p[1], !.artist = p[2], !.isrc = p[3],
                       !.artwork_url = p[4]] :
      p \in { <<T_Titlesz, A_Ab, None, None>>, <<T_Titlesy, A_Ab, None, None>>,
              <<T_Titles, A_Ab, None, None>>,
              <<T_Titles, A_Ab, Some("I1"), Some("u1")>>,
              <<T_Titles, A_Abc, None, None>>, <<T_Other, A_Ab, None, None>> } }

\* the service configured without enrichment (line 110 is false): tier 3 is
\* followed by the creation
InitFuzzy ==
    /\ tracks = <<>>
    /\ enable_musicbrainz = FALSE
    /\ call = [p \in Procs |-> IdleCall]
    /\ prev = NoPrev
    /\ budget = MaxFuzzyCalls
    /\ trend_entries = {}
    /\ refresh = NoRefresh
    /\ pure = NoPure
StartFuzzy(p) == (\E rec \in FuzzyRecords : StartCall(p, rec)) /\ UNCHANGED refresh
NextFuzzy ==
    \/ StartFuzzy(1)
    \/ ExactLookup(1)
    \/ IsrcLookup(1)
    \/ FuzzyLookup(1)
    \/ Merge(1)
    \/ Create(1)
SpecFuzzy == InitFuzzy /\ [][NextFuzzy]_vars

\* ---------------------------------------------------------- refresh_trends

ProviderOrder == <<"apple_music", "youtube", "spotify">>
\* the providers list after the three constructors, each of which either
\* appended its provider or raised: all, the last two, the last, none
ProviderLists ==
    { SelectSeq(ProviderOrder, LAMBDA n : n \in S) :
      S \in { {"apple_music", "youtube", "spotify"}, {"youtube", "spotify"},
              {"spotify"}, {} } }
\* the providers whose fetch_charts has statements outside its try block
FetchMayRaise == {"spotify"}

\* the records of the charts in a refresh run
RefreshRecords ==
    { r \in Records :
        \/ /\ <<r.title, r.artist>> \in { <<T_Titles, A_Ab>>, <<T_Bang, A_Ab>> }
           /\ r.isrc = None /\ r.artwork_url = None
        \/ /\ <<r.title, r.artist>> = <<T_Remix, A_AbFeat>>
           /\ r.isrc = Some("I1") /\ r.artwork_url = Some("u1") }

TrackError(name) == [kind |-> "track", provider |-> name]
ProviderError(name) == [kind |-> "provider", provider |-> name]

\* INSERT INTO trend_entries ... ON CONFLICT (track_id, provider, region,
\* genre, chart_date) DO UPDATE SET rank, score, metadata
\* the values of the INSERT: rank is track_data.get('rank'), score is
\* track_data.get('rank', 50), genre is `genre or 'all'`, chart_date is
\* CURRENT_DATE; payload is the rank (None when the record has none) and the
\* metadata of the record
TrendRow(track_id, provider, region, genre, day, payload) ==
    [track_id |-> track_id, provider |-> provider, region |-> region,
     genre |-> IF genre = None THEN "all" ELSE genre[1], chart_date |-> day,
     rank |-> payload[1],
     score |-> IF payload[1] = None THEN 50 ELSE payload[1][1],
     metadata |-> payload[2]]
TrendKey(e) == <<e.track_id, e.provider, e.region, e.genre, e.chart_date>>
\* the INSERT without its ON CONFLICT clause, on a table without the
\* constraint
InsertTrendEntry(entries, row) == entries \cup {row}
UpsertTrendEntry(entries, row) ==
    IF \E e \in entries : TrendKey(e) = TrendKey(row)
    THEN { IF TrendKey(e) = TrendKey(row)
           THEN [e EXCEPT !.rank = row.rank, !.score = row.score,
                          !.metadata = row.metadata]
           ELSE e : e \in entries }
    ELSE entries \cup {row}
\* the day, region and genre of the refresh runs of SpecRefresh
FirstDay == 1

\* the inner handler re-raising to the outer one: the provider's remaining
\* records are dropped
AfterTrackErrorAbortsProvider(r, name) ==
    [r EXCEPT !.pc = "fetch", !.idx = @ + 1, !.chart = 0,
              !.errors = Append(@, TrackError(name))]
\* the inner `except Exception`: the message is appended and the loop over
\* the chart goes on
AfterTrackError(r, name) ==
    [r EXCEPT !.pc = "track", !.errors = Append(@, TrackError(name))]
\* the outer `except Exception`: the message is appended and the loop over
\* the providers goes on, provider.close() not reached
AfterProviderError(r, name) ==
    [r EXCEPT !.pc = "fetch", !.idx = @ + 1,
              !.errors = Append(@, ProviderError(name))]

\* the state a request starts in: the store empty, or as an earlier refresh
\* of the day left it with one track and its trend entry, and then the
\* request with or without force
InitRefresh ==
    /\ enable_musicbrainz \in BOOLEAN
    /\ call = [p \in Procs |-> IdleCall]
    /\ prev = NoPrev
    /\ budget = MaxBatch
    /\ \E seeded \in BOOLEAN, force \in BOOLEAN :
          LET rec == [NoRecord EXCEPT !.title = T_Titles, !.artist = A_Ab]
          IN  /\ force => seeded
              /\ tracks = IF seeded
                          THEN <<NewTrack(rec, normalize_string(rec.title),
                                          normalize_string(rec.artist))>>
                          ELSE <<>>
              /\ trend_entries =
                    IF seeded
                    THEN {TrendRow(1, "spotify", "DE", None, FirstDay,
                                   <<Some(1), "a">>)}
                    ELSE {}
              /\ refresh = [NoRefresh EXCEPT !.pc = "check", !.force = force]
    /\ pure = NoPure

\* lines 216-229: without force, a day that has entries is not refreshed
RefreshCheck ==
    /\ refresh.pc = "check"
    /\ refresh' =
          IF ~refresh.force /\ Cardinality(trend_entries) > 0
          THEN [refresh EXCEPT !.pc = "done", !.status = "skipped",
                               !.tracks_processed = Cardinality(trend_entries),
                               !.errors = <<[kind |-> "exists", provider |-> "none"]>>]
          ELSE [refresh EXCEPT !.pc = "init"]
    /\ UNCHANGED <<tracks, enable_musicbrainz, call, prev, budget, trend_entries, pure>>

\* lines 232-273: the deduplication service and the providers are built; with
\* no provider the request ends with HTTPException(500)
RefreshInit ==
    /\ refresh.pc = "init"
    /\ \E ps \in ProviderLists :
          refresh' =
            IF ps = <<>>
            THEN [refresh EXCEPT !.pc = "done", !.status = "raised",
                                 !.open = {"dedupe"}]
            ELSE [refresh EXCEPT !.pc = "fetch", !.providers = ps, !.idx = 1,
                                 !.total_tracks = 0, !.errors = <<>>,
                                 !.open = {"dedupe"} \cup {ps[i] : i \in 1..Len(ps)}]
    /\ UNCHANGED <<tracks, enable_musicbrainz, call, prev, budget, trend_entries, pure>>

\* lines 276-279 and 319-321: the next provider's fetch_charts returns a
\* chart or raises
RefreshFetch ==
    /\ refresh.pc = "fetch"
    /\ refresh.idx <= Len(refresh.providers)
    /\ LET name == refresh.providers[refresh.idx]
       IN  \/ \E n \in 0..MaxChart :
                /\ n <= budget
                /\ refresh' = [refresh EXCEPT !.pc = "track", !.chart = n,
                                              !.rank = 0, !.fetched = @ + n,
                                              !.asked = @ \cup {name}]
           \/ /\ name \in FetchMayRaise
              /\ refresh' = [AfterProviderError(refresh, name) EXCEPT
                                !.asked = @ \cup {name}]
    /\ UNCHANGED <<tracks, enable_musicbrainz, call, prev, budget, trend_entries, pure>>

\* lines 282-285: the next record of the chart goes to find_or_create_track
RefreshTrack ==
    /\ refresh.pc = "track"
    /\ refresh.chart > 0
    /\ \E rec \in RefreshRecords : StartCall(1, rec)
    /\ refresh' = [refresh EXCEPT !.pc = "resolving", !.chart = @ - 1,
                                  !.rank = @ + 1]

\* line 317: the chart is done and the provider's client is closed
RefreshCloseProvider ==
    /\ refresh.pc = "track"
    /\ refresh.chart = 0
    /\ refresh' = [refresh EXCEPT !.pc = "fetch", !.idx = @ + 1,
                                  !.open = @ \ {refresh.providers[refresh.idx]}]
    /\ UNCHANGED <<tracks, enable_musicbrainz, call, prev, budget, trend_entries, pure>>

\* lines 285-315: find_or_create_track has returned or raised; the trend
\* entry is written, or the write raises
RefreshStore ==
    /\ refresh.pc = "resolving"
    /\ call[1].pc = "done"
    /\ LET name == refresh.providers[refresh.idx]
           entry(res, st) == [provider |-> name, resolved |-> res, stored |-> st,
                              creation_failed |-> call[1].fault = "create"]
       IN  \/ /\ call[1].outcome = "raised"
              /\ refresh' = [AfterTrackError(refresh, name) EXCEPT
                                !.log = Append(@, entry(FALSE, FALSE))]
              /\ UNCHANGED trend_entries
           \/ /\ call[1].outcome = "returned"
              /\ trend_entries' =
                    UpsertTrendEntry(trend_entries,
                        TrendRow(call[1].result, name, "DE", None, FirstDay,
                                 <<Some(refresh.rank), "a">>))
              /\ refresh' = [refresh EXCEPT !.pc = "track", !.total_tracks = @ + 1,
                                            !.log = Append(@, entry(TRUE, TRUE))]
           \/ /\ call[1].outcome = "returned"
              /\ refresh' = [AfterTrackError(refresh, name) EXCEPT
                                !.log = Append(@, entry(TRUE, FALSE))]
              /\ UNCHANGED trend_entries
    /\ UNCHANGED <<tracks, enable_musicbrainz, call, prev, budget, pure>>

\* lines 323-333: the enrichment client is closed and the response built
RefreshFinish ==
    /\ refresh.pc = "fetch"
    /\ refresh.idx > Len(refresh.providers)
    /\ refresh' = [refresh EXCEPT
                     !.pc = "done", !.open = @ \ {"dedupe"},
                     !.status = IF refresh.total_tracks > 0 THEN "success"
                                ELSE "failed",
                     !.tracks_processed = refresh.total_tracks]
    /\ UNCHANGED <<tracks, enable_musicbrainz, call, prev, budget, trend_entries, pure>>

ResolveInRefresh == refresh.pc = "resolving" /\ Resolve(1)

NextRefresh ==
    \/ RefreshCheck
    \/ RefreshInit
    \/ RefreshFetch
    \/ RefreshTrack
    \/ ResolveInRefresh
    \/ RefreshStore
    \/ RefreshCloseProvider
    \/ RefreshFinish

SpecRefresh == InitRefresh /\ [][NextRefresh]_vars

\* ----------------------------------------------------- the trend entries

\* what the writes of a sequence of refresh runs bring: the track, the
\* provider, the region and genre of the request, the record's rank and
\* metadata
TrendTracks == {1, 2}
TrendProviders == {"apple_music", "spotify"}
TrendRequests == { <<"DE", None>>, <<"DE", Some("pop")>>, <<"AT", None>> }
TrendPayloads == { <<Some(1), "a">>, <<None, "b">> }

\* pure here holds the day, the number of writes so far, the row of the
\* last write and the table as it was before it
InitTrend ==
    /\ tracks = <<>>
    /\ enable_musicbrainz = TRUE
    /\ call = [p \in Procs |-> IdleCall]
    /\ prev = NoPrev
    /\ budget = 0
    /\ refresh = NoRefresh
    /\ trend_entries = {}
    /\ pure = [fn |-> "trend_entries", today |-> FirstDay, writes |-> 0,
               written |-> None, before |-> {}]

\* lines 288-309: one record's trend entry is written
WriteTrendEntry ==
    /\ pure.writes < MaxWrites
    /\ \E t \in TrendTracks, pr \in TrendProviders, rq \in TrendRequests,
          pl \in TrendPayloads :
          LET row == TrendRow(t, pr, rq[1], rq[2], pure.today, pl)
          IN  /\ trend_entries' = UpsertTrendEntry(trend_entries, row)
              /\ pure' = [pure EXCEPT !.writes = @ + 1, !.written = Some(row),
                                      !.before = trend_entries]
    /\ UNCHANGED <<tracks, enable_musicbrainz, call, prev, budget, refresh>>

\* CURRENT_DATE moves on
NextDay ==
    /\ pure.today < MaxDay
    /\ pure' = [pure EXCEPT !.today = @ + 1]
    /\ UNCHANGED <<tracks, enable_musicbrainz, call, prev, budget, refresh,
                   trend_entries>>

NextTrend == WriteTrendEntry \/ NextDay
SpecTrend == InitTrend /\ [][NextTrend]_vars

\* ------------------------------------------------- normalize_string alone

\* the pieces of the texts: a letter, a space, a special character, a
\* featuring word, a parenthesis with content
NormTokens ==
    { <<"a">>, <<" ">>, <<"!">>, <<"f", "t">>, <<"(", "x", ")">> }
NormInputs ==
    { Flatten(ts) : ts \in UNION { [1..n -> NormTokens] : n \in 0..MaxTokens } }

\* the rest of the state of a run that calls a function alone
Untouched ==
    /\ tracks = <<>>
    /\ enable_musicbrainz = TRUE
    /\ call = [p \in Procs |-> IdleCall]
    /\ prev = NoPrev
    /\ budget = 0
    /\ refresh = NoRefresh
    /\ trend_entries = {}

\* pure here holds the text, normalize_string(text) once it is computed,
\* and normalize_string of that once it is computed
InitNorm ==
    /\ Untouched
    /\ \E text \in NormInputs :
          pure = [fn |-> "normalize_string", text |-> text,
                  once |-> None, twice |-> None]

NormalizeOnce ==
    /\ pure.once = None
    /\ pure' = [pure EXCEPT !.once = Some(normalize_string(pure.text))]
    /\ UNCHANGED <<tracks, enable_musicbrainz, call, prev, budget, refresh,
                   trend_entries>>

NormalizeAgain ==
    /\ pure.once # None /\ pure.twice = None
    /\ pure' = [pure EXCEPT !.twice = Some(normalize_string(pure.once[1]))]
    /\ UNCHANGED <<tracks, enable_musicbrainz, call, prev, budget, refresh,
                   trend_entries>>

NextNorm == NormalizeOnce \/ NormalizeAgain
SpecNorm == InitNorm /\ [][NextNorm]_vars

\* ------------------------------------------------ calculate_combined_score

MaxEntries == 2

\* PROVIDER_WEIGHTS, in hundredths
PROVIDER_WEIGHTS ==
    [apple_music |-> 100, spotify |-> 85, youtube |-> 65, lastfm |-> 40]

DefaultWeight == 50
DefaultRank == 50
DefaultBaseScore == 50
AppleBoost == 5
MaxBoost == 25
MaxScore == 100

\* self.PROVIDER_WEIGHTS.get(provider, 0.5), provider being entry.get('provider')
ProviderWeight(provider) ==
    IF provider # None /\ provider[1] \in DOMAIN PROVIDER_WEIGHTS
    THEN PROVIDER_WEIGHTS[provider[1]]
    ELSE DefaultWeight

\* the 'rank' of an entry: no such key, null, or a number
NoKey == [kind |-> "absent", n |-> 0]
Null == [kind |-> "null", n |-> 0]
Num(n) == [kind |-> "int", n |-> n]

\* entry.get('rank', 50): the default stands in for an absent key only
RankOf(entry) == IF entry.rank = NoKey THEN Num(DefaultRank) ELSE entry.rank

\* `if rank:`: None and 0 are false, every other number is true
RankTruthy(rank) == rank.kind = "int" /\ rank.n # 0

\* base_score = 100 - rank, taken as it comes
BaseScoreUnbounded(entry) ==
    LET rank == RankOf(entry)
    IN  IF RankTruthy(rank) THEN 100 - rank.n ELSE DefaultBaseScore

\* base_score that grows with the rank number
BaseScoreOfWorseRank(entry) ==
    LET rank == RankOf(entry)
    IN  IF RankTruthy(rank) THEN Max2(0, rank.n) ELSE DefaultBaseScore

\* base_score, in points: max(0, 100 - rank) for a true rank, else 50
BaseScore(entry) ==
    LET rank == RankOf(entry)
    IN  IF RankTruthy(rank) THEN Max2(0, 100 - rank.n) ELSE DefaultBaseScore

\* dict.get(key, default) of a key that is absent (None) or holds a value
Get(v, default) == IF v = None THEN default ELSE v[1]

\* base_score + boost after the provider's adjustment, in halves of a point
\* (a missing metadata key reads as 0, its default)
Adjusted(entry) ==
    LET base_score == BaseScore(entry)
        view_count == Get(entry.metadata.view_count, 0)
        popularity == Get(entry.metadata.popularity, 0)
    IN  IF entry.provider = Some("youtube")
        THEN IF view_count > 0
             THEN 2 * base_score
                  + (IF view_count >= MaxBoost * 1000000 THEN 2 * MaxBoost
                     ELSE (2 * view_count) \div 1000000)
             ELSE 2 * base_score
        ELSE IF entry.provider = Some("spotify")
        THEN IF popularity > 0 THEN base_score + popularity
             ELSE 2 * base_score
        ELSE IF entry.provider = Some("apple_music")
        THEN 2 * (base_score + AppleBoost)
        ELSE 2 * base_score

\* total_weighted_score, in 200ths of a point, and total_weight, in hundredths
RECURSIVE TotalWeightedScore(_)
TotalWeightedScore(es) ==
    IF es = <<>> THEN 0
    ELSE Adjusted(Head(es)) * ProviderWeight(Head(es).provider)
         + TotalWeightedScore(Tail(es))

RECURSIVE TotalWeight(_)
TotalWeight(es) ==
    IF es = <<>> THEN 0
    ELSE ProviderWeight(Head(es).provider) + TotalWeight(Tail(es))

\* round(min(100, combined_score), 2), in hundredths of a point; the quotient
\* is exact here, so a value midway between two hundredths goes to the even
\* one, where the floating-point quotient may land on either side of it
calculate_combined_score(es) ==
    IF es = <<>> THEN 0
    ELSE LET total_weighted_score == TotalWeightedScore(es)
             total_weight == TotalWeight(es)
         IN  IF total_weight > 0
             THEN IF total_weighted_score >= 2 * MaxScore * total_weight
                  THEN 100 * MaxScore
                  ELSE RoundDiv(50 * total_weighted_score, total_weight)
             ELSE 0

ScoreProviders ==
    { Some("apple_music"), Some("spotify"), Some("youtube"), Some("lastfm"),
      Some("deezer"), None }

ScoreRanks == { NoKey, Null } \cup { Num(n) : n \in { -5, 0, 1, 30, 100, 150 } }

NoMetadata == [view_count |-> None, popularity |-> None]

ScoreMetadata(provider) ==
    IF provider = Some("youtube")
    THEN { [NoMetadata EXCEPT !.view_count = v] :
           v \in { None, Some(3500000), Some(40000000) } }
    ELSE IF provider = Some("spotify")
    THEN { [NoMetadata EXCEPT !.popularity = v] : v \in { None, Some(0), Some(80) } }
    ELSE { NoMetadata }

ScoreEntries ==
    UNION { { [provider |-> p, rank |-> r, metadata |-> m] :
              r \in ScoreRanks, m \in ScoreMetadata(p) } : p \in ScoreProviders }

ScoreLists == UNION { [1..n -> ScoreEntries] : n \in 0..MaxEntries }

InitScore ==
    /\ Untouched
    /\ pure \in { [fn |-> "calculate_combined_score", entries |-> es,
                   score |-> None, replaced |-> None, rescored |-> None] :
                  es \in ScoreLists }

\* the call on the list
Score ==
    /\ pure.fn = "calculate_combined_score"
    /\ pure.score = None
    /\ pure' = [pure EXCEPT !.score = Some(calculate_combined_score(pure.entries))]
    /\ UNCHANGED <<tracks, enable_musicbrainz, call, prev, budget,
                   trend_entries, refresh>>

\* the call on the list with one entry's rank number replaced by a smaller one
ScoreBetterRank ==
    /\ pure.fn = "calculate_combined_score"
    /\ pure.score # None
    /\ pure.replaced = None
    /\ \E i \in DOMAIN pure.entries, r \in ScoreRanks :
          /\ pure.entries[i].rank.kind = "int"
          /\ r.kind = "int"
          /\ r.n < pure.entries[i].rank.n
          /\ pure' = [pure EXCEPT
                 !.replaced = Some(<<i, r>>),
                 !.rescored = Some(calculate_combined_score(
                                  [pure.entries EXCEPT ![i].rank = r]))]
    /\ UNCHANGED <<tracks, enable_musicbrainz, call, prev, budget,
                   trend_entries, refresh>>

NextScore == Score \/ ScoreBetterRank

SpecScore == InitScore /\ [][NextScore]_vars

\* -------------------------------------------------------------- rank_tracks

MaxTracks == 3

\* a placement that puts a track in front of the tracks of its own score
RECURSIVE InsertBeforeEqual(_, _)
InsertBeforeEqual(placed, t) ==
    IF placed = <<>> THEN <<t>>
    ELSE IF Head(placed).combined_score > t.combined_score
         THEN <<Head(placed)>> \o InsertBeforeEqual(Tail(placed), t)
         ELSE <<t>> \o placed

\* sorted(..., reverse=True) is stable: taken in input order, a track goes
\* behind every track already placed whose score is not smaller
RECURSIVE InsertByScore(_, _)
InsertByScore(placed, t) ==
    IF placed = <<>> THEN <<t>>
    ELSE IF Head(placed).combined_score >= t.combined_score
         THEN <<Head(placed)>> \o InsertByScore(Tail(placed), t)
         ELSE <<t>> \o placed

RECURSIVE SortedByScore(_)
SortedByScore(ts) ==
    IF ts = <<>> THEN <<>>
    ELSE InsertByScore(SortedByScore(SubSeq(ts, 1, Len(ts) - 1)), ts[Len(ts)])

\* rank_tracks(tracks): the score of each track from its trend_data (a track
\* without the key has the empty list), the sort, the ranks from 1
rank_tracks(ts) ==
    LET scored == [i \in DOMAIN ts |->
                      [id |-> ts[i].id, trend_data |-> ts[i].trend_data,
                       combined_score |->
                           calculate_combined_score(ts[i].trend_data)]]
        sorted_tracks == SortedByScore(scored)
    IN  [idx \in DOMAIN sorted_tracks |->
            [id |-> sorted_tracks[idx].id,
             trend_data |-> sorted_tracks[idx].trend_data,
             combined_score |-> sorted_tracks[idx].combined_score,
             rank |-> idx]]

RankEntry(p, r, popularity) ==
    [provider |-> Some(p), rank |-> Num(r),
     metadata |-> [NoMetadata EXCEPT !.popularity = Some(popularity)]]

\* trend data of the scores 0, 70, 70, 75 and 100
RankTrendData ==
    { <<>>,
      <<RankEntry("lastfm", 30, 0)>>,
      <<RankEntry("deezer", 30, 0), RankEntry("youtube", 30, 0)>>,
      <<RankEntry("spotify", 30, 80)>>,
      <<RankEntry("apple_music", 1, 0)>> }

\* the dicts of a list are distinct objects, told apart by id
RankInputs ==
    UNION { { ts \in [1..n -> [id : 1..MaxTracks, trend_data : RankTrendData]] :
              \A i, j \in 1..n : ts[i].id = ts[j].id => i = j } :
            n \in 0..MaxTracks }

InitRank ==
    /\ Untouched
    /\ pure \in { [fn |-> "rank_tracks", tracks |-> ts, ranked |-> None] :
                  ts \in RankInputs }

RankTracks ==
    /\ pure.fn = "rank_tracks"
    /\ pure.ranked = None
    /\ pure' = [pure EXCEPT !.ranked = Some(rank_tracks(pure.tracks))]
    /\ UNCHANGED <<tracks, enable_musicbrainz, call, prev, budget,
                   trend_entries, refresh>>

NextRank == RankTracks

SpecRank == InitRank /\ [][NextRank]_vars

\* ------------------------------------------------------- calculate_velocity

MaxPoints == 3

\* date.today(), as a day number, and the days of the window
Today == 10
WindowDays == 7

\* scores are in thousandths of a point, results in hundredths

\* d >= cutoff_date
InWindow(d) == d >= Today - WindowDays

\* recent_scores.sort(key=lambda x: x[0]), a stable sort: taken in input order,
\* a point goes behind every point already placed whose date is not later
RECURSIVE InsertByDate(_, _)
InsertByDate(placed, pt) ==
    IF placed = <<>> THEN <<pt>>
    ELSE IF Head(placed)[1] <= pt[1]
         THEN <<Head(placed)>> \o InsertByDate(Tail(placed), pt)
         ELSE <<pt>> \o placed

RECURSIVE SortedByDate(_)
SortedByDate(ps) ==
    IF ps = <<>> THEN <<>>
    ELSE InsertByDate(SortedByDate(SubSeq(ps, 1, Len(ps) - 1)), ps[Len(ps)])

\* the score of the latest point
NewestScore(recent_scores) == recent_scores[Len(recent_scores)][2]

\* recent_scores[0][1] of the sorted list
OldestScore(recent_scores) == recent_scores[1][2]

\* round(velocity, 2)
Round2(velocity) == RoundDiv(velocity, 10)

calculate_velocity(track_id, current_score, historical_scores) ==
    IF Len(historical_scores) < 2 THEN 0
    ELSE LET InRecent(pt) == InWindow(pt[1])
             recent_scores == SelectSeq(historical_scores, InRecent)
         IN  IF Len(recent_scores) < 2 THEN 0
             ELSE Round2(current_score - OldestScore(SortedByDate(recent_scores)))

\* 8, 7 and 6 days ago and today; no difference of two of the scores lies
\* midway between two hundredths
VelocityDates == { Today - 8, Today - 7, Today - 6, Today }
HistoricalValues == { 40000, 40004, 60253 }
CurrentValues == { 50000, 50123 }

VelocitySeries ==
    UNION { [1..n -> VelocityDates \X HistoricalValues] : n \in 0..MaxPoints }

InitVelocity ==
    /\ Untouched
    /\ pure \in { [fn |-> "calculate_velocity", current_score |-> c,
                   historical_scores |-> h, velocity |-> None] :
                  c \in CurrentValues, h \in VelocitySeries }

Velocity ==
    /\ pure.fn = "calculate_velocity"
    /\ pure.velocity = None
    /\ pure' = [pure EXCEPT !.velocity =
                   Some(calculate_velocity(1, pure.current_score,
                                           pure.historical_scores))]
    /\ UNCHANGED <<tracks, enable_musicbrainz, call, prev, budget,
                   trend_entries, refresh>>

NextVelocity == Velocity

SpecVelocity == InitVelocity /\ [][NextVelocity]_vars

\* --------------------------------------------------------------- get_trends

\* the largest `limit` of a request
MaxLimit == 2

\* the rows of the `aggregated` subquery for the request's region, date and
\* genre: one per track that has trend entries, with its trend_data
AggregatedTables ==
    { ts \in RankInputs : \A i, j \in DOMAIN ts : i < j => ts[i].id < ts[j].id }

\* SELECT * FROM aggregated LIMIT $4 with limit * 2: the query has no ORDER
\* BY, so it returns any limit * 2 of the rows (all of them when there are
\* no more), in any order
FetchedRows(table, limit) ==
    LET n == IF Len(table) <= 2 * limit THEN Len(table) ELSE 2 * limit
    IN  { [k \in 1..n |-> table[pick[k]]] :
          pick \in { f \in [1..n -> DOMAIN table] :
                       \A i, j \in 1..n : f[i] = f[j] => i = j } }

\* lines 138-170: no rows give no results; else the rows are ranked and the
\* first `limit` of them kept
RankedSlice(rows, limit) == Take(rank_tracks(rows), limit)

InitView ==
    /\ Untouched
    /\ pure \in { [fn |-> "get_trends", aggregated |-> ts, limit |-> l,
                   rows |-> None, results |-> None] :
                  ts \in AggregatedTables, l \in 1..MaxLimit }

\* line 136: the query is answered
FetchRows ==
    /\ pure.fn = "get_trends"
    /\ pure.rows = None
    /\ \E rows \in FetchedRows(pure.aggregated, pure.limit) :
          pure' = [pure EXCEPT !.rows = Some(rows)]
    /\ UNCHANGED <<tracks, enable_musicbrainz, call, prev, budget,
                   trend_entries, refresh>>

\* lines 138-199: the response is built
Respond ==
    /\ pure.fn = "get_trends"
    /\ pure.rows # None
    /\ pure.results = None
    /\ pure' = [pure EXCEPT !.results = Some(RankedSlice(pure.rows[1], pure.limit))]
    /\ UNCHANGED <<tracks, enable_musicbrainz, call, prev, budget,
                   trend_entries, refresh>>

NextView == FetchRows \/ Respond

SpecView == InitView /\ [][NextView]_vars

\* ------------------------------------------------------------------ claims

Matchable(c) == c.normalized_title # <<>> /\ c.normalized_artist # <<>>
SamePair(t, nt, na) == t.normalized_title = nt /\ t.normalized_artist = na
Finished(c) == c.pc = "done"
HasReturned(c) == c.pc = "done" /\ c.outcome = "returned"
\* the call returned a row that was there when it started
MatchedExisting(c) ==
    HasReturned(c) /\ c.tier # "creation" /\ c.result <= Len(c.pre_tracks)
MergeFields == {"artwork_url", "isrc", "duration_ms"}
\* the rows with the call's normalized pair when the call started
PairRowsBefore(c) ==
    {i \in 1..Len(c.pre_tracks) :
       SamePair(c.pre_tracks[i], c.normalized_title, c.normalized_artist)}
\* the rows with the call's incoming ISRC when the call started
IsrcRowsBefore(c) ==
    {i \in 1..Len(c.pre_tracks) : c.pre_tracks[i].isrc = c.record.isrc}

\* C1 as stated: after any sequence of sequential resolves from an empty
\* store, no two distinct rows have the same normalized_title and the same
\* normalized_artist, records normalizing to the empty string included.
C1_NoTwoRowsSharePair ==
    \A i, j \in 1..Len(tracks) :
        i # j => ~SamePair(tracks[i], tracks[j].normalized_title,
                           tracks[j].normalized_artist)

\* C1 as amended: after any sequence of sequential resolves from an empty
\* store, two distinct rows have the same normalized_title and the same
\* normalized_artist only if that title or that artist is the empty string.
C1_NoTwoMatchableRowsSharePair ==
    \A i, j \in 1..Len(tracks) :
        (i # j /\ SamePair(tracks[i], tracks[j].normalized_title,
                           tracks[j].normalized_artist))
        => (tracks[i].normalized_title = <<>> \/ tracks[i].normalized_artist = <<>>)

\* C1's case: a record was resolved whose pair, formatted differently, the
\* resolve before it had created a row for, and the table still has one row
C1_PairObservedTwice ==
    /\ prev.valid /\ prev.tier = "creation" /\ prev.outcome = "returned"
    /\ HasReturned(call[1]) /\ Matchable(call[1])
    /\ call[1].record.title # prev.record.title
    /\ SamePair(tracks[prev.result], call[1].normalized_title,
                call[1].normalized_artist)
    /\ Len(tracks) = 1

\* C2: when a row with the record's non-empty normalized pair is in the
\* store, a sequential resolve of the record adds no row and returns, by
\* tier 1, the id of a row with that pair; it ends otherwise only when the
\* tier-1 lookup or the merge's UPDATE failed.
C2_ExactMatchReturnsExistingTrack ==
    \A p \in Procs :
        LET c == call[p]
        IN  (Finished(c) /\ Matchable(c) /\ PairRowsBefore(c) # {})
            => /\ Len(tracks) = Len(c.pre_tracks)
               /\ IF c.outcome = "returned"
                  THEN c.result \in PairRowsBefore(c) /\ c.tier = "exact"
                  ELSE c.fault \in {"exact", "merge"}

\* C2's case: a record formatted differently from the row it matched, with
\* artwork to merge, got the row's id
C2_ReformattedRecordMatched ==
    /\ HasReturned(call[1]) /\ call[1].tier = "exact"
    /\ call[1].result = 1 /\ Len(tracks) = 1
    /\ call[1].record.title # tracks[1].title
    /\ call[1].record.artist # tracks[1].artist
    /\ Truthy(call[1].record.artwork_url)

\* C4 as stated: a resolve raises to its caller only when the final creation
\* write failed; a failed lookup of tier 1, 2 or 3 does not make it raise.
C4_OnlyCreationFaultRaises ==
    \A p \in Procs : call[p].outcome = "raised" => call[p].fault = "create"

\* C5: a resolve that matched an existing row leaves each of the row's
\* artwork_url, isrc and duration_ms that was non-null before the call as it
\* was, whatever the record supplies.
C5_MergeNeverOverwrites ==
    \A p \in Procs :
        LET c == call[p]
        IN  MatchedExisting(c) =>
              \A f \in MergeFields :
                  c.pre_tracks[c.result][f] # None
                  => tracks[c.result][f] = c.pre_tracks[c.result][f]

\* C5's case: the record offered an artwork_url and an ISRC different from
\* the ones the matched row had
C5_DifferentValuesOffered ==
    LET c == call[1]
    IN  /\ MatchedExisting(c)
        /\ c.pre_tracks[c.result].artwork_url # None
        /\ c.record.artwork_url # None
        /\ c.record.artwork_url # c.pre_tracks[c.result].artwork_url
        /\ c.pre_tracks[c.result].isrc # None
        /\ c.record.isrc # None
        /\ c.record.isrc # c.pre_tracks[c.result].isrc

\* C6 as stated: a resolve that matched an existing row sets each of
\* artwork_url, isrc and duration_ms that was null on the row and is non-null
\* on the record to the record's value.
C6_MergeFillsMissing ==
    \A p \in Procs :
        LET c == call[p]
        IN  MatchedExisting(c) =>
              \A f \in MergeFields :
                  (c.pre_tracks[c.result][f] = None /\ c.record[f] # None)
                  => tracks[c.result][f] = c.record[f]

\* C8: a resolve that returns, returns the id of a row of the store: a row
\* that was there before the call, and then the call added none, or the one
\* row the call added.
C8_ReturnsIdOfRow ==
    \A p \in Procs :
        LET c == call[p]
        IN  HasReturned(c) =>
              /\ c.result \in 1..Len(tracks)
              /\ IF c.tier = "creation"
                 THEN /\ c.result = Len(c.pre_tracks) + 1
                      /\ Len(tracks) = Len(c.pre_tracks) + 1
                 ELSE /\ c.result <= Len(c.pre_tracks)
                      /\ Len(tracks) = Len(c.pre_tracks)

\* C8's case: the call added a row to a store that had one and returned the
\* new row's id
C8_SecondRowCreated ==
    /\ HasReturned(call[1]) /\ call[1].tier = "creation"
    /\ Len(call[1].pre_tracks) = 1 /\ call[1].result = 2

\* the enrichment lookup ended other than with a successful answer
FailedLookup(resp) ==
    \/ resp.kind \in {"network", "timeout"}
    \/ resp.kind = "http" /\ resp.status # 200
    \/ resp.kind = "http" /\ resp.status = 200 /\ resp.body[1] # "json"
    \/ /\ resp.kind = "http" /\ resp.status = 200 /\ resp.body[1] = "json"
       /\ resp.body[2] # <<>>
       /\ \E k \in 1..Len(resp.body[2][1].isrcs) :
             resp.body[2][1].isrcs[k].shape # "dict"

\* C9: an enrichment lookup that ends with HTTP 429, another HTTP error, a
\* network fault, a timeout or a malformed response (a body that is not
\* JSON, an ISRC entry of another shape than expected) is no result: the call
\* goes on to creation with the record as it was and returns the new row's
\* id; it raises only if the INSERT fails.
C9_FailedEnrichmentIsNoResult ==
    \A p \in Procs :
        LET c == call[p]
        IN  FailedLookup(c.response) =>
              /\ c.track_data = c.record
              /\ c.pc \in {"create", "done"}
              /\ c.pc = "done" =>
                   \/ c.outcome = "returned" /\ c.tier = "creation"
                   \/ c.outcome = "raised" /\ c.fault = "create"

\* C9's case: a resolve returned a new row's id after the lookup had ended
\* with HTTP 500
C9_CreatedAfterHttpError ==
    /\ HasReturned(call[1]) /\ call[1].tier = "creation"
    /\ call[1].response.kind = "http" /\ call[1].response.status = 500

\* two records with the same non-null ISRC and differently formatted
\* title or artist were resolved one after the other and both calls returned
SameIsrcResolvedTwice ==
    /\ prev.valid /\ prev.outcome = "returned"
    /\ HasReturned(call[1])
    /\ prev.record.isrc # None
    /\ call[1].record.isrc = prev.record.isrc
    /\ \/ call[1].record.title # prev.record.title
       \/ call[1].record.artist # prev.record.artist

BothCreated(p, q) ==
    /\ p # q
    /\ HasReturned(call[p]) /\ call[p].tier = "creation"
    /\ HasReturned(call[q]) /\ call[q].tier = "creation"
    /\ Matchable(call[p])
    /\ call[q].normalized_title = call[p].normalized_title
    /\ call[q].normalized_artist = call[p].normalized_artist

\* C7: nothing stops two interleaved resolves of records with the same
\* normalized pair that both missed the lookups from each creating a row:
\* when both end in creation they return two distinct rows with that pair.
C7_ConcurrentResolvesCreateDuplicates ==
    \A p, q \in Procs :
        BothCreated(p, q) =>
            /\ call[p].result # call[q].result
            /\ call[p].result \in 1..Len(tracks)
            /\ call[q].result \in 1..Len(tracks)
            /\ SamePair(tracks[call[p].result], call[p].normalized_title,
                        call[p].normalized_artist)
            /\ SamePair(tracks[call[q].result], call[p].normalized_title,
                        call[p].normalized_artist)

\* C7's case: two interleaved resolves of the same record left the store,
\* empty before, with two rows for its pair
C7_DuplicatePairCreated ==
    /\ BothCreated(1, 2)
    /\ call[1].record = call[2].record
    /\ call[1].pre_tracks = <<>> /\ call[2].pre_tracks = <<>>
    /\ Len(tracks) = 2
    /\ ~C1_NoTwoMatchableRowsSharePair

\* the records of the run so far whose resolve returned and whose trend
\* entry was written
ProcessedOk(log) ==
    Cardinality({i \in DOMAIN log : log[i].resolved /\ log[i].stored})
\* the per-record messages among the errors
TrackErrorCount(errors) ==
    Cardinality({i \in DOMAIN errors : errors[i].kind = "track"})

\* C10: in a refresh run that processes the providers' charts, each record
\* whose resolve raised (a failed creation included) or whose trend entry
\* could not be written adds exactly one per-record message to the errors
\* and is not counted; the run goes on, so that when it ends every
\* initialised provider has been asked for its chart, every record the
\* providers returned has been processed, and tracks_processed is the number
\* of records whose resolve and trend-entry write both succeeded.
C10_FailedRecordDoesNotAbortBatch ==
    refresh.status # "skipped" =>
        /\ refresh.total_tracks = ProcessedOk(refresh.log)
        /\ TrackErrorCount(refresh.errors)
             = Len(refresh.log) - ProcessedOk(refresh.log)
        /\ refresh.status \in {"success", "failed"} =>
             /\ refresh.tracks_processed = ProcessedOk(refresh.log)
             /\ Len(refresh.log) = refresh.fetched
             /\ refresh.asked = {refresh.providers[i] :
                                   i \in 1..Len(refresh.providers)}

\* C10's case: the run ended after the creation of its first record's track
\* had failed, the next record of the same provider and a record of a later
\* provider were resolved and stored, and it reports two tracks and one error
C10_BatchWentOnAfterCreationFailure ==
    /\ refresh.pc = "done" /\ refresh.status = "success"
    /\ Len(refresh.log) = 3
    /\ ~refresh.log[1].resolved /\ refresh.log[1].creation_failed
    /\ refresh.log[2].resolved /\ refresh.log[2].stored
    /\ refresh.log[2].provider = refresh.log[1].provider
    /\ refresh.log[3].resolved /\ refresh.log[3].stored
    /\ refresh.log[3].provider # refresh.log[1].provider
    /\ refresh.tracks_processed = 2
    /\ refresh.errors = <<TrackError(refresh.log[1].provider)>>

\* C11: a finished resolve holds no pool connection, whether it returned or
\* raised, and whichever query raised.
C11_FinishedCallHoldsNoConnection ==
    \A p \in Procs : Finished(call[p]) => call[p].held = 0

\* C11's case: the UPDATE of the merge raised while the call held the
\* connection of the tier-1 lookup and the connection of the UPDATE
C11_MergeRaisedInsideLookupBlock ==
    /\ Finished(call[1]) /\ call[1].outcome = "raised"
    /\ call[1].fault = "merge" /\ call[1].tier = "exact"
    /\ call[1].held = 0

\* the order of the lookups of one resolve
LookupOrder == <<"exact", "isrc", "fuzzy", "enrich", "recheck">>
LookupPos(l) == CHOOSE k \in 1..Len(LookupOrder) : LookupOrder[k] = l
\* the lookup that finds the row a tier returns
LookupOfTier(t) == IF t = "enrichment" THEN "recheck" ELSE t
\* the rows a tier-2 lookup of the record as it came in would find
IsrcHitsBefore(c) == IF c.record.isrc = None THEN {} ELSE IsrcRowsBefore(c)

\* C19: in a resolve that returns, the lookups were issued in the order
\* exact, ISRC, fuzzy, enrichment, re-check, each at most once, and the last
\* one issued is the one that found the returned row; a row with the
\* record's normalized pair is returned before any row with its ISRC, and a
\* row with its ISRC before any other.
C19_FirstTierThatHitsDecides ==
    \A p \in Procs :
        LET c == call[p]
        IN  (HasReturned(c) /\ Matchable(c)) =>
              /\ \A i, j \in 1..Len(c.issued) :
                    i < j => LookupPos(c.issued[i]) < LookupPos(c.issued[j])
              /\ c.tier # "creation" =>
                    c.issued[Len(c.issued)] = LookupOfTier(c.tier)
              /\ PairRowsBefore(c) # {} =>
                    (c.tier = "exact" /\ c.result \in PairRowsBefore(c))
              /\ (PairRowsBefore(c) = {} /\ IsrcHitsBefore(c) # {}) =>
                    (c.tier = "isrc" /\ c.result \in IsrcHitsBefore(c))
              /\ c.tier \in {"fuzzy", "enrichment", "creation"} =>
                    (PairRowsBefore(c) = {} /\ IsrcHitsBefore(c) = {})

\* C19's case: the record had the normalized pair of one row and the ISRC of
\* another, and the first was returned after the exact lookup alone
C19_ExactBeatsIsrc ==
    LET c == call[1]
    IN  /\ HasReturned(c)
        /\ PairRowsBefore(c) # {} /\ IsrcHitsBefore(c) # {}
        /\ PairRowsBefore(c) \cap IsrcHitsBefore(c) = {}
        /\ c.result \in PairRowsBefore(c)
        /\ c.issued = <<"exact">>

\* C20: a resolve of a record whose normalized title or artist is empty
\* issues no lookup and no enrichment query; it adds one row with the
\* record's title and artist as they came and returns its id, or raises
\* because the INSERT failed and adds none.
C20_UnmatchableGoesStraightToCreation ==
    \A p \in Procs :
        LET c == call[p]
        IN  (c.pc # "idle" /\ ~Matchable(c)) =>
              /\ c.issued = <<>>
              /\ c.response = NoResponse
              /\ c.pc \in {"create", "done"}
              /\ HasReturned(c) =>
                    /\ c.tier = "creation"
                    /\ Len(tracks) = Len(c.pre_tracks) + 1
                    /\ SubSeq(tracks, 1, Len(c.pre_tracks)) = c.pre_tracks
                    /\ c.result = Len(tracks)
                    /\ tracks[c.result].title = c.record.title
                    /\ tracks[c.result].artist = c.record.artist
              /\ (Finished(c) /\ ~HasReturned(c)) =>
                    (c.fault = "create" /\ tracks = c.pre_tracks)

\* C20's case: a record with an empty normalized title got a row of its own
\* in a store that had a row with the same normalized pair
C20_UnmatchableCreatedBesideSamePair ==
    LET c == call[1]
    IN  /\ HasReturned(c) /\ ~Matchable(c)
        /\ PairRowsBefore(c) # {}
        /\ c.result = Len(c.pre_tracks) + 1

\* C12: no two trend entries have the same (track, provider, region, genre,
\* date); a write whose key the table has leaves the number of entries and
\* every other entry as they were and gives the entry of that key the
\* written rank, score and metadata; a write of a new key adds that row only.
C12_OneTrendEntryPerKey ==
    /\ \A e1, e2 \in trend_entries : TrendKey(e1) = TrendKey(e2) => e1 = e2
    /\ pure.written # None =>
         LET row == pure.written[1]
             old == {e \in pure.before : TrendKey(e) = TrendKey(row)}
         IN  /\ {e \in trend_entries : TrendKey(e) # TrendKey(row)}
                  = pure.before \ old
             /\ {e \in trend_entries : TrendKey(e) = TrendKey(row)} = {row}
             /\ old # {} => Cardinality(trend_entries) = Cardinality(pure.before)

\* C12's case: the last write had the key of an entry of the table, with
\* another rank and other metadata, on a table with entries of other keys
C12_EntryWrittenAgain ==
    /\ pure.written # None
    /\ \E e \in pure.before :
          /\ TrendKey(e) = TrendKey(pure.written[1])
          /\ e.rank # pure.written[1].rank
          /\ e.metadata # pure.written[1].metadata
    /\ Cardinality(trend_entries) = 2

\* C13 as stated: normalize_string(normalize_string(x)) is
\* normalize_string(x) for every text x, texts included in which the removal
\* of a special character leaves a featuring clause that was none before.
C13_NormalizeIdempotent ==
    pure.twice # None => pure.twice = pure.once

\* C14: for every list of entries calculate_combined_score returns a value
\* between 0 and 100 (scores are in hundredths of a point), and 0 for the
\* empty list.
C14_ScoreWithinRange ==
    pure.fn = "calculate_combined_score" =>
        /\ pure.score # None =>
              /\ pure.score[1] \in 0..(100 * MaxScore)
              /\ pure.entries = <<>> => pure.score[1] = 0
        /\ pure.rescored # None => pure.rescored[1] \in 0..(100 * MaxScore)

\* C14's case: a list whose weighted average exceeds 100 points was scored,
\* and the result is 100.
C14_AverageAboveHundredClamped ==
    /\ pure.fn = "calculate_combined_score"
    /\ pure.score = Some(100 * MaxScore)
    /\ Len(pure.entries) = MaxEntries
    /\ TotalWeightedScore(pure.entries) > 2 * MaxScore * TotalWeight(pure.entries)

MalformedRank(rank) == rank \in { NoKey, Null } \/ rank.n <= 0

UnrecognizedProvider(provider) ==
    provider = None \/ provider[1] \notin DOMAIN PROVIDER_WEIGHTS

\* C15 as stated: in a scored list an entry with a missing or unrecognized
\* provider weighs 0.5, an entry whose rank is absent, null, zero or negative
\* has base score 50, and so a list of one such entry, of a provider without
\* adjustment, scores 50.
C15_MalformedEntriesDefault ==
    (pure.fn = "calculate_combined_score" /\ pure.score # None) =>
        /\ \A i \in DOMAIN pure.entries :
              /\ UnrecognizedProvider(pure.entries[i].provider)
                     => ProviderWeight(pure.entries[i].provider) = DefaultWeight
              /\ MalformedRank(pure.entries[i].rank)
                     => BaseScore(pure.entries[i]) = DefaultBaseScore
        /\ (/\ Len(pure.entries) = 1
            /\ MalformedRank(pure.entries[1].rank)
            /\ pure.entries[1].provider \in { None, Some("deezer"), Some("lastfm") })
               => pure.score[1] = 100 * DefaultBaseScore

\* C16 as stated: replacing one entry's rank number by a smaller one never
\* lowers the combined score, whatever the two rank numbers are.
C16_BetterRankNeverLowers ==
    (pure.fn = "calculate_combined_score" /\ pure.rescored # None) =>
        pure.rescored[1] >= pure.score[1]

\* C16, amended: replacing one entry's rank number by a smaller one that is
\* still positive (at least 1) never lowers the combined score.
C16_BetterPositiveRankNeverLowers ==
    (/\ pure.fn = "calculate_combined_score"
     /\ pure.rescored # None
     /\ pure.replaced[1][2].n >= 1) =>
        pure.rescored[1] >= pure.score[1]

\* C16's case: in a list of several entries a positive rank number was
\* replaced by a smaller positive one and the combined score rose.
C16_BetterPositiveRankRaised ==
    /\ pure.fn = "calculate_combined_score"
    /\ pure.rescored # None
    /\ pure.replaced[1][2].n >= 1
    /\ Len(pure.entries) = MaxEntries
    /\ pure.rescored[1] > pure.score[1]

InputPos(id) == CHOOSE i \in DOMAIN pure.tracks : pure.tracks[i].id = id

\* C17: rank_tracks returns a permutation of its input tracks, each with the
\* combined score of its trend data, in order of non-increasing score; tracks
\* of equal score keep their input order; the ranks are 1..N in output order.
C17_RankedStableDense ==
    (pure.fn = "rank_tracks" /\ pure.ranked # None) =>
        LET out == pure.ranked[1]
        IN  /\ Len(out) = Len(pure.tracks)
            /\ { out[i].id : i \in DOMAIN out }
                   = { pure.tracks[i].id : i \in DOMAIN pure.tracks }
            /\ \A i \in DOMAIN out :
                  /\ out[i].trend_data = pure.tracks[InputPos(out[i].id)].trend_data
                  /\ out[i].combined_score
                         = calculate_combined_score(out[i].trend_data)
                  /\ out[i].rank = i
            /\ \A i, j \in DOMAIN out :
                  i < j =>
                      /\ out[i].combined_score >= out[j].combined_score
                      /\ out[i].combined_score = out[j].combined_score
                             => InputPos(out[i].id) < InputPos(out[j].id)

\* C17's case: the ranking moved a track to the front and two tracks of one
\* score, with different trend data, follow in their input order.
C17_TieKeptWhileReordered ==
    /\ pure.fn = "rank_tracks"
    /\ pure.ranked # None
    /\ Len(pure.tracks) = MaxTracks
    /\ pure.ranked[1][1].id = pure.tracks[MaxTracks].id
    /\ \E i, j \in DOMAIN pure.ranked[1] :
          /\ i < j
          /\ pure.ranked[1][i].combined_score = pure.ranked[1][j].combined_score
          /\ pure.ranked[1][i].trend_data # pure.ranked[1][j].trend_data

\* the points of the series dated within the last 7 days
RecentPoints ==
    { i \in DOMAIN pure.historical_scores :
          Today - pure.historical_scores[i][1] <= WindowDays }

\* C18: calculate_velocity returns 0 when fewer than 2 points of the series
\* lie within the last 7 days, whatever the current score; otherwise it
\* returns the current score minus the score of the oldest point of the
\* window, to two decimals, in whatever order the series comes.
C18_VelocityOverWindow ==
    (pure.fn = "calculate_velocity" /\ pure.velocity # None) =>
        IF Cardinality(RecentPoints) < 2
        THEN pure.velocity[1] = 0
        ELSE \E i \in RecentPoints :
                /\ \A j \in RecentPoints :
                      pure.historical_scores[i][1] <= pure.historical_scores[j][1]
                /\ pure.velocity[1]
                       = Round2(pure.current_score - pure.historical_scores[i][2])

\* C18's case: a series with a point older than the window, given with the
\* oldest point of the window last, and the velocity is the negative
\* difference to that point.
C18_OldestOfWindowGivenLast ==
    /\ pure.fn = "calculate_velocity"
    /\ pure.velocity # None
    /\ Len(pure.historical_scores) = MaxPoints
    /\ Cardinality(RecentPoints) = MaxPoints - 1
    /\ \A j \in RecentPoints \ { MaxPoints } :
          pure.historical_scores[MaxPoints][1] < pure.historical_scores[j][1]
    /\ pure.historical_scores[MaxPoints][1] = Today - WindowDays
    /\ pure.velocity[1] < 0
    /\ pure.velocity[1]
           = Round2(pure.current_score - pure.historical_scores[MaxPoints][2])

\* row i of the table the call started on passes both thresholds
PassesThresholds(c, i) ==
    /\ FuzzRatio(c.normalized_title, c.pre_tracks[i].normalized_title)
           >= TitleThreshold
    /\ FuzzRatio(c.normalized_artist, c.pre_tracks[i].normalized_artist)
           >= ArtistThreshold
\* the candidate query of the call was answered
CandidatesFetched(c) ==
    /\ Finished(c)
    /\ \E k \in 1..Len(c.issued) : c.issued[k] = "fuzzy"
    /\ c.fault # "fuzzy"

\* C21: the candidates of tier 3 are at most 20 rows whose normalized_artist
\* contains the first 20 characters of the incoming one; a resolve returns a
\* track from tier 3 only if it is a candidate with title similarity >= 92
\* and artist similarity >= 88 and no candidate before it in the list has
\* both; when a candidate has both, tier 3 decides; when none has, tier 3
\* decides nothing and, with enrichment disabled, a new row is created.
C21_FuzzyTierFirstCandidateOverThresholds ==
    LET c == call[1]
        cs == c.candidates
    IN  CandidatesFetched(c) =>
          /\ Len(cs) <= CandidateLimit
          /\ \A k \in 1..Len(cs) :
                /\ cs[k] \in 1..Len(c.pre_tracks)
                /\ Contains(c.pre_tracks[cs[k]].normalized_artist,
                            Take(c.normalized_artist, ArtistPrefixLen))
          /\ (HasReturned(c) /\ c.tier = "fuzzy") =>
                \E k \in 1..Len(cs) :
                   /\ cs[k] = c.result
                   /\ PassesThresholds(c, cs[k])
                   /\ \A j \in 1..(k - 1) : ~PassesThresholds(c, cs[j])
          /\ (\E k \in 1..Len(cs) : PassesThresholds(c, cs[k])) => c.tier = "fuzzy"
          /\ (\A k \in 1..Len(cs) : ~PassesThresholds(c, cs[k])) =>
                /\ c.tier # "fuzzy"
                /\ (HasReturned(c) /\ ~enable_musicbrainz) =>
                      /\ c.tier = "creation"
                      /\ c.result = Len(c.pre_tracks) + 1
                      /\ Len(tracks) = Len(c.pre_tracks) + 1

\* C21's case: two candidates pass both thresholds and the resolve returned
\* the one the list has first, which is the row created later.
C21_FirstOfTwoAcceptableReturned ==
    LET c == call[1]
    IN  /\ HasReturned(c) /\ c.tier = "fuzzy"
        /\ Len(c.candidates) = 2
        /\ PassesThresholds(c, 1) /\ PassesThresholds(c, 2)
        /\ c.candidates[1] = 2
        /\ c.result = 2

\* an entry with well-formed fields: no rank or a positive one
WellFormed(entry) == entry.rank \in { NoKey, Null } \/ entry.rank.n >= 1

\* the reference's base plus boost of one entry, in halves of a point: the
\* streaming source's popularity, when the entry has one, is averaged with
\* the base whatever its value
ReferenceAdjusted(entry) ==
    LET base == IF entry.rank \in { NoKey, Null } THEN 50
                ELSE Max2(0, 100 - entry.rank.n)
        views == Get(entry.metadata.view_count, 0)
    IN  IF entry.provider = Some("youtube")
        THEN 2 * base + (IF views >= 25000000 THEN 50 ELSE (2 * views) \div 1000000)
        ELSE IF entry.provider = Some("spotify")
        THEN IF entry.metadata.popularity = None THEN 2 * base
             ELSE base + entry.metadata.popularity[1]
        ELSE IF entry.provider = Some("apple_music") THEN 2 * (base + 5)
        ELSE 2 * base

RECURSIVE ReferenceTotal(_)
ReferenceTotal(es) ==
    IF es = <<>> THEN 0
    ELSE ReferenceAdjusted(Head(es)) * ProviderWeight(Head(es).provider)
         + ReferenceTotal(Tail(es))

\* min(100, sum(final) / sum(weights)) rounded to 2 decimals, in hundredths
ReferenceScore(es) ==
    IF es = <<>> THEN 0
    ELSE IF ReferenceTotal(es) >= 200 * TotalWeight(es) THEN 10000
    ELSE RoundDiv(50 * ReferenceTotal(es), TotalWeight(es))

\* C22 as stated: on every list of well-formed entries
\* calculate_combined_score equals the reference, in which the streaming
\* source's base is (base + popularity) / 2 for every popularity in 0..100,
\* 0 included.
C22_ScoreEqualsReference ==
    (/\ pure.fn = "calculate_combined_score"
     /\ pure.score # None
     /\ \A i \in DOMAIN pure.entries : WellFormed(pure.entries[i])) =>
        pure.score[1] = ReferenceScore(pure.entries)

NoAdjustment(provider) ==
    provider \notin { Some("youtube"), Some("spotify"), Some("apple_music") }

\* C23 as stated: a single entry of a source without adjustment scores
\* 100.00 with rank 1 and 0.00 with a rank of 100 or more, and a single
\* chart-authority entry with rank 1 scores 100.00.
C23_BaseScoreEndPoints ==
    (/\ pure.fn = "calculate_combined_score"
     /\ pure.score # None
     /\ Len(pure.entries) = 1
     /\ pure.entries[1].rank.kind = "int") =>
        LET entry == pure.entries[1]
        IN  /\ (NoAdjustment(entry.provider) /\ entry.rank.n = 1)
                   => pure.score[1] = 100 * MaxScore
            /\ (NoAdjustment(entry.provider) /\ entry.rank.n >= 100)
                   => pure.score[1] = 0
            /\ (entry.provider = Some("apple_music") /\ entry.rank.n = 1)
                   => pure.score[1] = 100 * MaxScore

\* the queries the call has sent to the enrichment client
EnrichQueries(c) == {k \in 1..Len(c.issued) : c.issued[k] = "enrich"}

\* C24: a resolve queries the enrichment client at most once, and only when
\* enrichment is enabled, the record is matchable, and tiers 1, 2 (when the
\* record has an ISRC) and 3 were run before and missed; no earlier tier
\* decided the call.
C24_EnrichmentOnlyAsLastResort ==
    LET c == call[1]
    IN  /\ Cardinality(EnrichQueries(c)) <= 1
        /\ EnrichQueries(c) # {} =>
              /\ enable_musicbrainz
              /\ Matchable(c)
              /\ SubSeq(c.issued, 1, SetMin(EnrichQueries(c))) \in
                    { <<"exact", "fuzzy", "enrich">>,
                      <<"exact", "isrc", "fuzzy", "enrich">> }
              /\ Truthy(c.record.isrc) <=> c.issued[2] = "isrc"
              /\ PairRowsBefore(c) = {}
              /\ IsrcHitsBefore(c) = {}
              /\ \A k \in 1..Len(c.candidates) :
                    ~PassesThresholds(c, c.candidates[k])
              /\ c.tier \notin {"exact", "isrc", "fuzzy"}

\* C24's case: on a store that holds a row, a record with an ISRC missed
\* tiers 1, 2 and 3, the enrichment client was queried, and the call returned.
C24_QueriedAfterThreeMisses ==
    LET c == call[1]
    IN  /\ HasReturned(c)
        /\ Len(c.pre_tracks) >= 1
        /\ Len(c.candidates) >= 1
        /\ Len(c.issued) >= 4
        /\ SubSeq(c.issued, 1, 4) = <<"exact", "isrc", "fuzzy", "enrich">>

\* what the enrichment client returned to the call (None for no result)
Enrichment(c) == QueryMusicbrainz(c.response).data
\* the enrichment gave an ISRC to a record that had none
NewIsrc(c) ==
    /\ EnrichQueries(c) # {}
    /\ Enrichment(c) # None
    /\ c.record.isrc = None
    /\ Enrichment(c)[1].isrc # None
Rechecks(c) == {k \in 1..Len(c.issued) : c.issued[k] = "recheck"}

\* C25: tier 2 is run again, once, exactly when the enrichment gave an ISRC
\* to a record that had none, and with that ISRC; a hit returns the row that
\* holds it and creates none; a row created after an enrichment result
\* carries its recording id and, when the record had no ISRC, its ISRC; an
\* ISRC the record came with is never replaced.
C25_EnrichmentResultHandled ==
    LET c == call[1]
    IN  /\ Cardinality(Rechecks(c)) <= 1
        /\ Rechecks(c) # {} =>
              NewIsrc(c) /\ c.track_data.isrc = Enrichment(c)[1].isrc
        /\ (Finished(c) /\ NewIsrc(c)) => Rechecks(c) # {}
        /\ c.record.isrc # None => c.track_data.isrc = c.record.isrc
        /\ (HasReturned(c) /\ NewIsrc(c)) =>
              IF \E i \in 1..Len(c.pre_tracks) :
                    c.pre_tracks[i].isrc = Enrichment(c)[1].isrc
              THEN /\ c.tier = "enrichment"
                   /\ c.result \in 1..Len(c.pre_tracks)
                   /\ c.pre_tracks[c.result].isrc = Enrichment(c)[1].isrc
                   /\ Len(tracks) = Len(c.pre_tracks)
              ELSE c.tier = "creation"
        /\ (/\ HasReturned(c) /\ c.tier = "creation"
            /\ EnrichQueries(c) # {} /\ Enrichment(c) # None) =>
              /\ tracks[c.result].musicbrainz_recording_id = Enrichment(c)[1].id
              /\ tracks[c.result].isrc =
                    IF c.record.isrc # None THEN c.record.isrc
                    ELSE Enrichment(c)[1].isrc

\* C25's case: on a store that holds a row, the enrichment gave an ISRC no
\* row holds, tier 2 ran again and missed, and the row created carries the
\* ISRC and the recording id.
C25_CreatedWithEnrichedIsrc ==
    LET c == call[1]
    IN  /\ HasReturned(c) /\ c.tier = "creation"
        /\ Len(c.pre_tracks) >= 1
        /\ NewIsrc(c) /\ Rechecks(c) # {}
        /\ tracks[c.result].isrc = Some("I1")
        /\ tracks[c.result].musicbrainz_recording_id = Some("M1")

\* the invocation waits for a connection: its next step takes one and the
\* pool has none free
WaitsForConnection(p) == Acquires(p) /\ PoolHeld = PoolSize

\* C26 as stated: no invocation waits for a pool connection while it holds
\* one, and so no state has every connection of the pool held by an
\* invocation that waits for a further one.
C26_NeverWaitsWhileHolding ==
    /\ \A p \in Procs : ~(call[p].held > 0 /\ WaitsForConnection(p))
    /\ ~(/\ PoolHeld = PoolSize
         /\ \A p \in Procs : call[p].held > 0 => WaitsForConnection(p))

\* C27 as stated: after any sequence of sequential resolves from an empty
\* store no two distinct rows hold the same non-null ISRC.
C27_NoTwoRowsShareIsrc ==
    \A i, j \in 1..Len(tracks) :
        (tracks[i].isrc # None /\ tracks[i].isrc = tracks[j].isrc) => i = j

\* C29 as stated: get_trends returns the `limit` tracks (all of them when
\* there are fewer) with the highest combined scores among all tracks that
\* have trend entries for the request, in order of non-increasing score with
\* the ranks 1..count; no track left out scores strictly higher than a track
\* of the result.
C29_TopOfAllTracks ==
    (pure.fn = "get_trends" /\ pure.results # None) =>
        LET res == pure.results[1]
            all == pure.aggregated
            inside == { res[i].id : i \in DOMAIN res }
        IN  /\ Len(res) = (IF Len(all) <= pure.limit THEN Len(all) ELSE pure.limit)
            /\ \A i \in DOMAIN res : res[i].rank = i
            /\ \A i, j \in DOMAIN res :
                  i < j => res[i].combined_score >= res[j].combined_score
            /\ \A k \in DOMAIN all :
                  all[k].id \notin inside =>
                      \A i \in DOMAIN res :
                          calculate_combined_score(all[k].trend_data)
                              <= res[i].combined_score

\* C28 as stated: when a refresh run has finished, by its response or by
\* the 'no providers' error, every HTTP client it opened (each initialised
\* provider's and the enrichment client of the deduplication service) has
\* been closed.
C28_AllClientsClosedAtEnd ==
    refresh.pc = "done" => refresh.open = {}

====
